---------------------------- MODULE Spec2Model ----------------------------
(***************************************************************************)
(* State-machine model of the combobox widget                              *)
(* (src/src/components/shared-components/WholeInputField/ComboboxInput.vue *)
(* and the combobox.utils functions appended to it).                       *)
(*                                                                         *)
(* Every event handler of the component is one action.  A handler is       *)
(* written as an operator from a state record to a state record, so that   *)
(* the calls a handler makes (getOptionList -> setOptions -> emitChange    *)
(* -> focus handler ...) compose exactly as they do in the code.           *)
(*                                                                         *)
(* Text is a sequence of one-character strings, so that trim(),            *)
(* toLocaleLowerCase() and includes() are computed, not assumed.           *)
(***************************************************************************)
EXTENDS Integers, Sequences, FiniteSets, TLC

\* ------------------------------------------------------------------
\* Bounds of the model

\* number of distinct well-formed raw items the host filter can return
MaxOpts == 2
\* what Date.now() reads.  The component only compares stored times with
\* Date.now(), so time is kept relative to the present: a tick moves every
\* stored time one tick into the past and the clock keeps reading Epoch.
\* Epoch - 1 stands for every past time; it must differ from 0.
Epoch == 2
\* deferred filter calls that may be outstanding at once
MaxPending == 2
\* debounce timers that may be scheduled at once
MaxTimers == 2

\* props.debounceTime, in clock ticks (the default is 500 ms)
debounceTime == 1

\* step sizes of handleKeyboardNav
CtrlStep == 5
PlainStep == 1
PageStep == 10

\* ------------------------------------------------------------------
\* Values

\* JavaScript `undefined` where a string is expected (activeVal,
\* dataset.value), and the `value` of an element of the list, which is no
\* string either (undefined for the <ul>, the number 0 for a <li>)
Undef == <<"undefined">>

\* activeID when no item is active (`undefined`)
NoID == -1

\* selectedIndex is null, a number, or (after a click) the string dataset.index
Null == [t |-> "null", n |-> 0]
Num(n) == [t |-> "num", n |-> n]
Str(n) == [t |-> "str", n |-> n]
\* a string of digits that starts with a superfluous "0" ("01", "05", "010"):
\* it converts to the number n, and as a property key it names no array element
Str0(n) == [t |-> "str0", n |-> n]

\* ------------------------------------------------------------------
\* String primitives (String.prototype.trim / toLocaleLowerCase / includes)

LowerChar(c) ==
    CASE c = "Q" -> "q"
      [] c = "S" -> "s"
      [] c = "N" -> "n"
      [] c = "W" -> "w"
      [] OTHER -> c

toLocaleLowerCase(t) == [i \in 1..Len(t) |-> LowerChar(t[i])]

RECURSIVE trimStart(_)
trimStart(t) ==
    IF t # <<>> /\ Head(t) = " " THEN trimStart(Tail(t)) ELSE t

RECURSIVE trimEnd(_)
trimEnd(t) ==
    IF t # <<>> /\ t[Len(t)] = " " THEN trimEnd(SubSeq(t, 1, Len(t) - 1)) ELSE t

trim(t) == trimEnd(trimStart(t))

includes(t, sub) ==
    \E i \in 0..(Len(t) - Len(sub)) : SubSeq(t, i + 1, i + Len(sub)) = sub

\* ------------------------------------------------------------------
\* Raw items a host filter returns, and their normalisation

\* the well-formed raw items (as the demo application's option tables)
Universe ==
    << [kind |-> "obj", value |-> <<"Q">>, label |-> <<"Q", "l", "d">>],
       [kind |-> "str", value |-> <<"S", "a">>, label |-> <<>>],
       [kind |-> "obj", value |-> <<"N">>, label |-> <<"N", "t">>],
       [kind |-> "obj", value |-> <<"W">>, label |-> <<"W", "a">>] >>

\* an object without a label, and an item that is no string, number or object
NoLabelItem == [kind |-> "obj", value |-> <<"T">>, label |-> <<>>]
BooleanItem == [kind |-> "bool", value |-> <<>>, label |-> <<>>]

RECURSIVE SubSeqOf(_, _)
\* the items of Universe whose position is in S, in Universe order
SubSeqOf(S, k) ==
    IF k > MaxOpts THEN <<>>
    ELSE IF k \in S THEN <<Universe[k]>> \o SubSeqOf(S, k + 1)
    ELSE SubSeqOf(S, k + 1)

GoodBatches == { SubSeqOf(S, 1) : S \in SUBSET (1..MaxOpts) }
BadBatches == { <<Universe[1], BooleanItem>> }
RawBatches == GoodBatches \cup BadBatches

\* texts the user can have in the input box at a keyup
Texts == { <<>>, <<" ">>, <<"Q", " ">> }

isStrNum(item) == item.kind \in {"str", "num"}
isObjItem(item) == item.kind = "obj"

\* getNormaliseSingleOption('', true): keeps value and label, adds icon
NormaliseSingleOption(item) ==
    [value |-> item.value, label |-> item.label, icon |-> <<>>]

\* TRUE when getOptionItem throws for this item
getOptionItemThrows(item) ==
    IF isStrNum(item) THEN FALSE
    ELSE IF isObjItem(item)
         THEN LET _item == NormaliseSingleOption(item)
              IN  _item.value = <<>> \/ _item.label = <<>>
         ELSE TRUE

getOptionItem(item) ==
    IF isStrNum(item)
    THEN [value |-> item.value, label |-> item.value, icon |-> <<>>]
    ELSE NormaliseSingleOption(item)

getRawOptionsThrows(optionlist) ==
    \E i \in 1..Len(optionlist) : getOptionItemThrows(optionlist[i])

getRawOptions(optionlist) ==
    [i \in 1..Len(optionlist) |-> getOptionItem(optionlist[i])]


\* ------------------------------------------------------------------
\* State of one mounted widget instance

VARIABLES
    \* refs of the component
    selectedIndex, maxIndex, options, rawOptions, filterStr, fetching, retry,
    showList, activeID, activeVal,
    \* the DOM input's text (comboboxInput.value.value) and where focus is
    inputText, focus,
    \* the scheduled resetDebounce timers (due times, in order of
    \* scheduling) and the number of unsettled promises
    timers, pending,
    \* how many of the unsettled promises, counted from the oldest, are older
    \* than a result already applied (the call of a newer promise settled
    \* before them)
    overtaken,
    \* props, and whether props.filter is a deferred (Promise-returning)
    \* filter or a synchronous one
    autoSelect, loop, required, deferred,
    \* whether the instance is mounted, and its listeners on document.body
    mounted, listeners,
    \* what the last event did: signals emitted to the host, whether an
    \* error escaped a handler, whether console.error was called, the
    \* filter invocations made, and the event itself
    signals, thrown, logged, filterLog, last

vars ==
    << selectedIndex, maxIndex, options, rawOptions, filterStr, fetching, retry,
       showList, activeID, activeVal, inputText, focus, timers, pending,
       overtaken, autoSelect, loop, required, deferred, mounted, listeners,
       signals, thrown, logged, filterLog, last >>

\* The state as a record, with what the last event did cleared.  `exc` is an
\* exception in flight inside a handler.
St ==
    [ selectedIndex |-> selectedIndex, maxIndex |-> maxIndex,
      options |-> options, rawOptions |-> rawOptions, filterStr |-> filterStr,
      fetching |-> fetching, retry |-> retry, showList |-> showList,
      activeID |-> activeID, activeVal |-> activeVal,
      inputText |-> inputText, focus |-> focus,
      now |-> Epoch, timers |-> timers, pending |-> pending,
      overtaken |-> overtaken,
      autoSelect |-> autoSelect, loop |-> loop, required |-> required,
      signals |-> <<>>, thrown |-> FALSE, logged |-> FALSE,
      filterLog |-> <<>>, exc |-> FALSE ]

\* The refs and the DOM after an event whose handlers left record r
Effects(r, ev) ==
    /\ selectedIndex' = r.selectedIndex
    /\ maxIndex' = r.maxIndex
    /\ options' = r.options
    /\ rawOptions' = r.rawOptions
    /\ filterStr' = r.filterStr
    /\ fetching' = r.fetching
    /\ retry' = r.retry
    /\ showList' = r.showList
    /\ activeID' = r.activeID
    /\ activeVal' = r.activeVal
    /\ inputText' = r.inputText
    /\ focus' = IF r.focus = "list" /\ r.showList = FALSE THEN "out" ELSE r.focus
    /\ timers' = r.timers
    /\ pending' = r.pending
    /\ overtaken' = r.overtaken
    /\ signals' = r.signals
    /\ thrown' = r.thrown
    /\ logged' = r.logged
    /\ filterLog' = r.filterLog
    /\ last' = ev
    /\ UNCHANGED << autoSelect, loop, required, deferred >>

\* The state after an event, other than the unmounting, whose handlers left
\* record r
Apply(r, ev) ==
    /\ Effects(r, ev)
    /\ UNCHANGED << mounted, listeners >>

\* onBeforeMount: ePre.value is null when a new instance is set up, so the
\* listener is added (addEventListener keeps one entry per function)
onBeforeMount(bodyListeners) == bodyListeners \cup {"backgroundClick"}

\* onUnmounted without the removeEventListener call
onUnmounted_KeepsListener(bodyListeners) == bodyListeners

\* onUnmounted: bod was set by onBeforeMount
onUnmounted(bodyListeners) == bodyListeners \ {"backgroundClick"}

\* An exception that leaves an event handler is reported, not propagated
\* to whoever dispatched the event
Escaped(r) == [r EXCEPT !.thrown = r.thrown \/ r.exc, !.exc = FALSE]

\* what the host filter returns to one call
HostReturn(kind, batch) == [kind |-> kind, batch |-> batch]
NoHost == HostReturn("none", <<>>)

\* an event: its kind, the key of a keyup (or the way a promise settled),
\* whether ctrl was held, the position clicked, the value delivered
Event(ev, key, ctrl, arg, data) ==
    [ev |-> ev, key |-> key, ctrl |-> ctrl, arg |-> arg, data |-> data]

\* ------------------------------------------------------------------
\* combobox.utils

\* isObj(_options[_index]): the element a property lookup finds, if any
isObj(found) == found # <<>>

Lookup(_options, _index) ==
    IF _index.t # "str0" /\ _index.n >= 0 /\ _index.n < Len(_options)
    THEN << _options[_index.n + 1] >>
    ELSE <<>>

\* getEmitData throws a TypeError at `_str.trim()` when no option is
\* addressed and _str is not a string
getEmitDataThrows(_options, _index, _str) ==
    /\ _str = Undef
    /\ ~(Len(_options) # 0 /\ _index # Null /\ isObj(Lookup(_options, _index)))

\* getEmitData with `_str === ''` in place of `_str.trim() === ''`
getEmitData_NoTrim(_options, _index, _str) ==
    LET empty == (Len(_options) = 0)
        rawOutput == IF empty = FALSE /\ _index # Null
                        /\ isObj(Lookup(_options, _index))
                     THEN Lookup(_options, _index)
                     ELSE <<>>
        bad == (rawOutput = <<>>)
    IN  [ output |-> IF bad THEN <<>> ELSE rawOutput[1].value,
          validity |-> IF bad
                       THEN [ valid |-> FALSE,
                              badInput |-> (_str = <<>> \/ empty = TRUE),
                              valueMissing |-> TRUE ]
                       ELSE [ valid |-> TRUE, badInput |-> FALSE,
                              valueMissing |-> FALSE ],
          empty |-> empty,
          rawOutput |-> rawOutput,
          bad |-> bad ]

getEmitData(_options, _index, _str) ==
    LET empty == (Len(_options) = 0)
        rawOutput == IF empty = FALSE /\ _index # Null
                        /\ isObj(Lookup(_options, _index))
                     THEN Lookup(_options, _index)
                     ELSE <<>>
        bad == (rawOutput = <<>>)
    IN  [ output |-> IF bad THEN <<>> ELSE rawOutput[1].value,
          validity |-> IF bad
                       THEN [ valid |-> FALSE,
                              badInput |-> (trim(_str) = <<>> \/ empty = TRUE),
                              valueMissing |-> TRUE ]
                       ELSE [ valid |-> TRUE, badInput |-> FALSE,
                              valueMissing |-> FALSE ],
          empty |-> empty,
          rawOutput |-> rawOutput,
          bad |-> bad ]

\* typeof of a label: labels are strings
typeofLabel(item) == "string"
\* a non-empty string is truthy
Truthy(str) == str # ""

defaultFilter(optionList, value, _options) ==
    LET val == toLocaleLowerCase(trim(value))
        keep(item) == \/ includes(toLocaleLowerCase(item.value), val)
                      \/ Truthy(typeofLabel(item))
    IN  IF Len(optionList) > 0 /\ value # Undef /\ val # <<>>
        THEN SelectSeq(optionList, keep)
        ELSE _options

\* key names of length 1 that match /\S| /
SingleCharKeys == {"q", "Q", " "}

isPrintableCharacter(key) ==
    \/ key \in SingleCharKeys
    \/ key \in {"Backspace", "Delete"}

\* ------------------------------------------------------------------
\* event.utils

getFauxInputEvent(value, rawValue, validity) ==
    [ type |-> "change",
      value |-> value,
      rawValue |-> rawValue,
      validity |-> validity ]

\* ------------------------------------------------------------------
\* ComboboxInput.vue: local methods

RECURSIVE handleInputFocus(_, _)

\* HTMLElement.focus() on the input: a no-op when the input has focus,
\* otherwise focus moves and the input's focus listener runs before focus()
\* returns.  h is what the host filter returns if the listener calls it.
focusInput(s, h) ==
    IF s.focus = "input"
    THEN s
    ELSE Escaped(handleInputFocus([s EXCEPT !.focus = "input"], h))

\* emitChange that writes the input's text whether or not _close is true
emitChange_TextAlways(s, _options, _index, _str, _close, h) ==
    IF getEmitDataThrows(_options, _index, _str)
    THEN [s EXCEPT !.exc = TRUE]
    ELSE
    LET d == getEmitData(_options, _index, _str)
        s0 == [s EXCEPT !.inputText = IF d.bad = TRUE
                                      THEN <<>>
                                      ELSE d.rawOutput[1].label]
        s1 == IF _close = TRUE THEN focusInput(s0, h) ELSE s0
        s2 == [s1 EXCEPT !.activeID = IF d.bad = TRUE THEN NoID ELSE _index.n,
                         !.activeVal = IF d.bad = TRUE THEN Undef ELSE d.output]
        s3 == [s2 EXCEPT !.signals =
                 Append(@, getFauxInputEvent(d.output, d.rawOutput, d.validity))]
    IN  [s3 EXCEPT !.signals = IF s.required = TRUE
                                 THEN Append(@, [type |-> "invalid", bad |-> d.bad])
                                 ELSE @]

emitChange(s, _options, _index, _str, _close, h) ==
    IF getEmitDataThrows(_options, _index, _str)
    THEN [s EXCEPT !.exc = TRUE]
    ELSE
    LET d == getEmitData(_options, _index, _str)
        s1 == IF _close = TRUE
              THEN focusInput(
                     [s EXCEPT !.inputText = IF d.bad = TRUE
                                             THEN <<>>
                                             ELSE d.rawOutput[1].label],
                     h)
              ELSE s
        s2 == [s1 EXCEPT !.activeID = IF d.bad = TRUE THEN NoID ELSE _index.n,
                         !.activeVal = IF d.bad = TRUE THEN Undef ELSE d.output]
        s3 == [s2 EXCEPT !.signals =
                 Append(@, getFauxInputEvent(d.output, d.rawOutput, d.validity))]
    IN  [s3 EXCEPT !.signals = IF s.required = TRUE
                                 THEN Append(@, [type |-> "invalid", bad |-> d.bad])
                                 ELSE @]

\* selectedIndex + step and selectedIndex - step as JavaScript computes
\* them: `+` on a string index concatenates, `-` converts to a number
Plus(idx, step) ==
    LET joined == IF step < 10 THEN idx.n * 10 + step ELSE idx.n * 100 + step
    IN  IF idx.t = "num" THEN Num(idx.n + step)
        ELSE IF idx.t = "str" /\ idx.n > 0 THEN Str(joined)
        ELSE Str0(joined)

Minus(idx, step) == Num(idx.n - step)

decrement(s, step) ==
    IF s.maxIndex > -1
    THEN LET sel == IF s.selectedIndex = Null
                    THEN Num(s.maxIndex)
                    ELSE LET newVal == Minus(s.selectedIndex, step)
                         IN  IF newVal.n >= 0 THEN newVal
                             ELSE IF s.loop = TRUE THEN Num(s.maxIndex)
                             ELSE Num(0)
             s1 == [s EXCEPT !.selectedIndex = sel]
         IN  emitChange(s1, s1.options, s1.selectedIndex, s1.filterStr,
                        FALSE, NoHost)
    ELSE s

\* increment without the `maxIndex.value > -1` test
increment_NoGuard(s, step) ==
    LET sel == IF s.selectedIndex = Null
               THEN Num(-1 + step)
               ELSE LET newVal == Plus(s.selectedIndex, step)
                    IN  IF newVal.n <= s.maxIndex THEN newVal
                        ELSE IF s.loop = TRUE THEN Num(0)
                        ELSE Num(s.maxIndex)
        s1 == [s EXCEPT !.selectedIndex = sel]
    IN  emitChange(s1, s1.options, s1.selectedIndex, s1.filterStr,
                   FALSE, NoHost)

increment(s, step) ==
    IF s.maxIndex > -1
    THEN LET sel == IF s.selectedIndex = Null
                    THEN Num(-1 + step)
                    ELSE LET newVal == Plus(s.selectedIndex, step)
                         IN  IF newVal.n <= s.maxIndex THEN newVal
                             ELSE IF s.loop = TRUE THEN Num(0)
                             ELSE Num(s.maxIndex)
             s1 == [s EXCEPT !.selectedIndex = sel]
         IN  emitChange(s1, s1.options, s1.selectedIndex, s1.filterStr,
                        FALSE, NoHost)
    ELSE s

resetDebounce(s) == [s EXCEPT !.retry = 0]

\* setOptions that emits only for an empty list (`if (ok === false)`)
setOptions_NoAutoEmit(s, optionList) ==
    IF getRawOptionsThrows(optionList)
    THEN [s EXCEPT !.exc = TRUE]
    ELSE LET s1 == [s EXCEPT !.rawOptions = getRawOptions(optionList),
                             !.options = getRawOptions(optionList),
                             !.maxIndex = Len(optionList) - 1]
             auto == (Len(optionList) = 1 /\ s.autoSelect = TRUE)
             ok == ~(~auto /\ s1.maxIndex < 0)
             s2 == IF auto THEN [s1 EXCEPT !.selectedIndex = Num(0)] ELSE s1
         IN  IF ok = FALSE
             THEN emitChange(s2, s2.options, s2.selectedIndex, s2.filterStr,
                             FALSE, NoHost)
             ELSE s2

setOptions(s, optionList) ==
    IF getRawOptionsThrows(optionList)
    THEN [s EXCEPT !.exc = TRUE]
    ELSE LET s1 == [s EXCEPT !.rawOptions = getRawOptions(optionList),
                             !.options = getRawOptions(optionList),
                             !.maxIndex = Len(optionList) - 1]
             auto == (Len(optionList) = 1 /\ s.autoSelect = TRUE)
             ok == ~(~auto /\ s1.maxIndex < 0)
             s2 == IF auto THEN [s1 EXCEPT !.selectedIndex = Num(0)] ELSE s1
         IN  IF auto \/ ok = FALSE
             THEN emitChange(s2, s2.options, s2.selectedIndex, s2.filterStr,
                             FALSE, NoHost)
             ELSE s2

\* setOptionsThen that also opens the list
setOptionsThen_OpensList(s, response) ==
    IF ~response.isArray
    THEN [s EXCEPT !.exc = TRUE]
    ELSE setOptions([s EXCEPT !.fetching = FALSE, !.retry = 0,
                              !.showList = TRUE], response.batch)

\* setOptionsThen without `retry.value = 0`
setOptionsThen_KeepsRetry(s, response) ==
    IF ~response.isArray
    THEN [s EXCEPT !.exc = TRUE]
    ELSE setOptions([s EXCEPT !.fetching = FALSE], response.batch)

\* setOptionsThen that ends the session and drops the result
setOptionsThen_DropsResult(s, response) ==
    IF ~response.isArray
    THEN [s EXCEPT !.exc = TRUE]
    ELSE [s EXCEPT !.fetching = FALSE, !.retry = 0]

\* response: [isArray, batch]
setOptionsThen(s, response) ==
    IF ~response.isArray
    THEN [s EXCEPT !.exc = TRUE]
    ELSE setOptions([s EXCEPT !.fetching = FALSE, !.retry = 0], response.batch)

\* the .catch() handler without `maxIndex.value = -1`
filterFailed_KeepsMaxIndex(s) ==
    [s EXCEPT !.fetching = FALSE, !.retry = 0, !.logged = TRUE, !.exc = FALSE]

\* the .catch() handler of getOptionList
filterFailed(s) ==
    [s EXCEPT !.fetching = FALSE, !.retry = 0, !.maxIndex = -1,
              !.logged = TRUE, !.exc = FALSE]

bouncingFilter(optionList, value, _options) ==
    defaultFilter(optionList, value, _options)

\* getOptionList without `|| retry.value < now`
getOptionList_NoRetryCheck(s, str, h) ==
    IF s.fetching = FALSE
    THEN LET s1 == [s EXCEPT !.fetching = FALSE, !.retry = 0,
                             !.filterLog = Append(@, [by |-> "host", str |-> str,
                                                      ret |-> h]),
                             !.showList = TRUE]
         IN  IF h.kind = "array"
             THEN setOptions(s1, h.batch)
             ELSE IF h.kind = "promise"
             THEN [s1 EXCEPT !.fetching = TRUE,
                             !.retry = s.now + debounceTime,
                             !.timers = Append(@, s.now + debounceTime),
                             !.pending = @ + 1]
             ELSE [s1 EXCEPT !.exc = TRUE]
    ELSE [s EXCEPT !.options = bouncingFilter(s.rawOptions, str, s.options),
                   !.filterLog = Append(@, [by |-> "local", str |-> str,
                                            ret |-> NoHost])]

\* getOptionList without the final `throw new Error(...)`
getOptionList_NoThrow(s, str, h) ==
    IF s.fetching = FALSE \/ s.retry < s.now
    THEN LET s1 == [s EXCEPT !.fetching = FALSE, !.retry = 0,
                             !.filterLog = Append(@, [by |-> "host", str |-> str,
                                                      ret |-> h]),
                             !.showList = TRUE]
         IN  IF h.kind = "array"
             THEN setOptions(s1, h.batch)
             ELSE IF h.kind = "promise"
             THEN [s1 EXCEPT !.fetching = TRUE,
                             !.retry = s.now + debounceTime,
                             !.timers = Append(@, s.now + debounceTime),
                             !.pending = @ + 1]
             ELSE s1
    ELSE [s EXCEPT !.options = bouncingFilter(s.rawOptions, str, s.options),
                   !.filterLog = Append(@, [by |-> "local", str |-> str,
                                            ret |-> NoHost])]

getOptionList(s, str, h) ==
    IF s.fetching = FALSE \/ s.retry < s.now
    THEN LET s1 == [s EXCEPT !.fetching = FALSE, !.retry = 0,
                             !.filterLog = Append(@, [by |-> "host", str |-> str,
                                                      ret |-> h]),
                             !.showList = TRUE]
         IN  IF h.kind = "array"
             THEN setOptions(s1, h.batch)
             ELSE IF h.kind = "promise"
             THEN [s1 EXCEPT !.fetching = TRUE,
                             !.retry = s.now + debounceTime,
                             !.timers = Append(@, s.now + debounceTime),
                             !.pending = @ + 1]
             ELSE [s1 EXCEPT !.exc = TRUE]
    ELSE [s EXCEPT !.options = bouncingFilter(s.rawOptions, str, s.options),
                   !.filterLog = Append(@, [by |-> "local", str |-> str,
                                            ret |-> NoHost])]

\* `showList.value = false` after emitChange(..., true), which is not
\* reached when emitChange threw
closeList(r) == IF r.exc THEN r ELSE [r EXCEPT !.showList = FALSE]

\* dataValue: event.target.dataset.value
handleEnter(s, dataValue, h) ==
    LET val == IF dataValue # Undef THEN dataValue ELSE <<>>
        hits == { a \in 1..Len(s.rawOptions) : s.rawOptions[a].value = val }
        first == CHOOSE a \in hits : \A b \in hits : a <= b
        sel == IF val # <<>> /\ hits # {} THEN Num(first - 1) ELSE Null
        s1 == [s EXCEPT !.selectedIndex = sel]
    IN  closeList(emitChange(s1, s1.rawOptions, s1.selectedIndex, s1.filterStr,
                             TRUE, h))

\* ------------------------------------------------------------------
\* ComboboxInput.vue: event handlers

\* handleInputFocus without the `rawOptions.value.length > 0` test
handleInputFocus_NoGuard(s, h) ==
    getOptionList([s EXCEPT !.showList = TRUE], s.filterStr, h)

handleInputFocus(s, h) ==
    IF Len(s.rawOptions) > 0
    THEN getOptionList([s EXCEPT !.showList = TRUE], s.filterStr, h)
    ELSE s

handleKeyboardNav(s, key, ctrl, dataValue, h) ==
    LET step == IF ctrl = TRUE THEN CtrlStep ELSE PlainStep
    IN  IF s.maxIndex > -1
        THEN CASE key \in {"ArrowDown", "Down"} -> increment(s, step)
               [] key \in {"ArrowUp", "Up"} -> decrement(s, step)
               [] key = "PageUp" -> decrement(s, PageStep)
               [] key = "PageDown" -> increment(s, PageStep)
               [] key = "Home" -> [s EXCEPT !.selectedIndex = Num(0)]
               [] key = "End" -> [s EXCEPT !.selectedIndex = Num(s.maxIndex)]
               [] key \in {"Enter", "Return"} -> handleEnter(s, dataValue, h)
               [] key \in {"Esc", "Escape"} ->
                    LET s1 == [s EXCEPT !.selectedIndex = Null]
                    IN  closeList(emitChange(s1, s1.options, s1.selectedIndex,
                                             s1.filterStr, TRUE, h))
               [] OTHER -> s
        ELSE s

\* target: the input; val: event.target.value
handleInputKeyUp(s, key, ctrl, val, dataValue, h) ==
    IF isPrintableCharacter(key)
    THEN getOptionList([s EXCEPT !.filterStr = val], val, h)
    ELSE handleKeyboardNav(s, key, ctrl, dataValue, h)

handleOptionKeyUp(s, key, ctrl, dataValue, h) ==
    handleKeyboardNav(s, key, ctrl, dataValue, h)

\* index, value: event.target.dataset (index -1: the target carries none)
handleOptionClick(s, index, value, h) ==
    LET idx == Str(index)
        s1 == IF index >= 0 /\ isObj(Lookup(s.options, idx))
                 /\ Lookup(s.options, idx)[1].value = value
              THEN [s EXCEPT !.selectedIndex = idx]
              ELSE [s EXCEPT !.selectedIndex = Null]
    IN  closeList(emitChange(s1, s1.options, s1.selectedIndex, s1.filterStr,
                             TRUE, h))

\* inside: comboboxWrap.contains(event.target)
\* backgroundClick without the contains() test
backgroundClick_Always(s, inside) == [s EXCEPT !.showList = FALSE]

backgroundClick(s, inside) ==
    IF inside = FALSE THEN [s EXCEPT !.showList = FALSE] ELSE s

\* ------------------------------------------------------------------
\* The environment: the user, the host filter, the event loop

\* The user's keys and texts.  With a synchronous filter the whole
\* keyboard is explored; with a deferred filter, where the interleavings of
\* timers and promises are explored, a part of it.
PrintableKeys == {"q"}
ArrowKeys == {"ArrowDown", "ArrowUp", "PageDown", "PageUp"}
OtherNavKeys == {"Home", "End", "Enter", "Escape", "Tab"}
DeferredNavKeys == {"ArrowDown", "Home", "Enter", "Escape"}

NavKeys == IF deferred THEN DeferredNavKeys ELSE ArrowKeys \cup OtherNavKeys
CtrlKey(key) == IF ~deferred /\ key \in ArrowKeys THEN BOOLEAN ELSE {FALSE}
TypedTexts == IF deferred THEN { <<"Q", " ">> } ELSE { <<>>, <<"Q", " ">> }

\* TRUE when getOptionList would call props.filter
CallsHost(s) == s.fetching = FALSE \/ s.retry < s.now

\* the keys released while focus is in the list, and the elements they are
\* released on: the target matters to Enter alone (dataset.value)
ListKeys ==
    IF deferred THEN {"Enter"} ELSE PrintableKeys \cup {"ArrowDown", "Enter", "Escape"}
ListTargets(key) == IF key = "Enter" THEN -1..(Len(options) - 1) ELSE {-1}

\* TRUE when a key released in the list leads to a call of props.filter
ListKeyCallsHost(key) ==
    /\ CallsHost(St)
    /\ \/ isPrintableCharacter(key)
       \/ key \in {"Enter", "Escape"} /\ maxIndex > -1 /\ Len(rawOptions) > 0

\* what props.filter may return to a call made now
HostReturns ==
    IF deferred
    THEN IF pending < MaxPending /\ Len(timers) < MaxTimers
         THEN { HostReturn("promise", <<>>) }
         ELSE {}
    ELSE { HostReturn("array", b) : b \in RawBatches }
            \cup { HostReturn("junk", <<>>) }

\* the arrays a promise may resolve to: none, one or MaxOpts well-formed
\* items, or an array with a malformed item
PromisedBatches ==
    { <<>>, <<Universe[1]>>, SubSeqOf(1..MaxOpts, 1) } \cup BadBatches

\* how a promise returned by props.filter may settle
Outcomes ==
    { [kind |-> "resolve", isArray |-> TRUE, batch |-> b] : b \in PromisedBatches }
        \cup { [kind |-> "resolve", isArray |-> FALSE, batch |-> <<>>],
               [kind |-> "reject", isArray |-> FALSE, batch |-> <<>>] }

\* the configurations explored: with a synchronous filter every pair of
\* prop values; with a deferred filter one configuration
SyncProps ==
    { << FALSE, FALSE, FALSE >>, << FALSE, TRUE, TRUE >>,
      << TRUE, FALSE, TRUE >>, << TRUE, TRUE, FALSE >> }
DeferredProps == { << TRUE, FALSE, TRUE >> }

Init ==
    /\ selectedIndex = Null
    /\ maxIndex = -1
    /\ options = <<>>
    /\ rawOptions = <<>>
    /\ filterStr = <<>>
    /\ fetching = FALSE
    /\ retry = 0
    /\ showList = FALSE
    /\ activeID = NoID
    /\ activeVal = Undef
    /\ inputText = <<>>
    /\ focus = "out"
    /\ timers = <<>>
    /\ pending = 0
    /\ overtaken = 0
    /\ deferred \in BOOLEAN
    /\ \E p \in (IF deferred THEN DeferredProps ELSE SyncProps) :
          /\ autoSelect = p[1]
          /\ loop = p[2]
          /\ required = p[3]
    /\ signals = <<>>
    /\ thrown = FALSE
    /\ logged = FALSE
    /\ filterLog = <<>>
    /\ mounted = TRUE
    /\ listeners = onBeforeMount({})
    /\ last = Event("mount", "", FALSE, 0, <<>>)

\* keyup of a printable key in the input, whose text is val by then
KeyUpPrintable ==
    /\ mounted = TRUE
    /\ focus = "input"
    /\ \E key \in PrintableKeys, val \in TypedTexts :
         \E h \in (IF CallsHost(St) THEN HostReturns ELSE {NoHost}) :
            Apply(Escaped(handleInputKeyUp([St EXCEPT !.inputText = val],
                                           key, FALSE, val, activeVal, h)),
                  Event("keyup", key, FALSE, 0, <<>>))

\* keyup of a navigation key in the input
KeyUpNav ==
    /\ mounted = TRUE
    /\ focus = "input"
    /\ \E key \in NavKeys :
         \E ctrl \in CtrlKey(key) :
            Apply(Escaped(handleInputKeyUp(St, key, ctrl, inputText,
                                           activeVal, NoHost)),
                  Event("keyup", key, ctrl, 0, <<>>))

\* the user moves focus into the input
InputFocus ==
    /\ mounted = TRUE
    /\ focus # "input"
    /\ \E h \in (IF Len(rawOptions) > 0 /\ CallsHost(St)
                 THEN HostReturns ELSE {NoHost}) :
         Apply(focusInput(St, h), Event("focus", "", FALSE, 0, <<>>))

\* focus leaves the input or the list (no listener)
Blur ==
    /\ mounted = TRUE
    /\ focus # "out"
    /\ Apply([St EXCEPT !.focus = "out"], Event("blur", "", FALSE, 0, <<>>))

\* the user moves focus into the open list (Tab from the input, or the
\* pointer): the <ul> and its items take focus (tabindex 0), no listener runs
ListFocus ==
    /\ mounted = TRUE
    /\ showList = TRUE
    /\ focus # "list"
    /\ Apply([St EXCEPT !.focus = "list"], Event("listfocus", "", FALSE, 0, <<>>))

\* keyup while focus is in the list, on the item rendered at position
\* target or (target = -1) on the <ul> itself.  The event runs the list's
\* keyup listener and then, bubbling, the wrapper's; event.target.value is
\* not a string.  props.filter is called at most once: by the focus handler
\* that _input.focus() runs, or by getOptionList for a printable key.
KeyUpList ==
    /\ mounted = TRUE
    /\ focus = "list"
    /\ showList = TRUE
    /\ \E key \in ListKeys :
         \E target \in ListTargets(key) :
            \E h \in (IF ListKeyCallsHost(key) THEN HostReturns ELSE {NoHost}) :
               LET dataValue == IF target >= 0
                                THEN options[target + 1].value
                                ELSE Undef
               IN  \E r1 \in { Escaped(handleOptionKeyUp(St, key, FALSE,
                                                         dataValue, h)) } :
                      Apply(Escaped(handleInputKeyUp(r1, key, FALSE, Undef,
                                                     dataValue, h)),
                            Event("listkeyup", key, FALSE, target, <<>>))

\* click in the open list: on the item rendered at position index, or
\* (index = -1) on the list element itself.  Pressing the pointer moved
\* focus to the list.
OptionClick ==
    /\ mounted = TRUE
    /\ showList = TRUE
    /\ \E index \in -1..(Len(options) - 1) :
         \E h \in (IF Len(rawOptions) > 0 /\ CallsHost(St)
                   THEN HostReturns ELSE {NoHost}) :
            Apply(Escaped(handleOptionClick(
                            [St EXCEPT !.focus = "list"], index,
                            IF index >= 0 THEN options[index + 1].value ELSE Undef,
                            h)),
                  Event("click", "", FALSE, index, <<>>))

\* pointerup on the document body: inside the wrapper (while there is one)
\* or outside it; the listeners registered on the body run
PointerUp ==
    \E inside \in (IF mounted THEN BOOLEAN ELSE {FALSE}) :
        Apply(IF "backgroundClick" \in listeners
              THEN Escaped(backgroundClick(St, inside))
              ELSE St,
              Event("pointerup", IF inside THEN "inside" ELSE "outside", FALSE, 0,
                    <<>>))

\* the host removes the instance: its elements leave the document and
\* onUnmounted runs; promises and timers already started stay
Unmount ==
    /\ mounted = TRUE
    /\ Effects([St EXCEPT !.focus = "out"], Event("unmount", "", FALSE, 0, <<>>))
    /\ mounted' = FALSE
    /\ listeners' = onUnmounted(listeners)

\* an unsettled promise, the nth oldest, settles:
\* tmp.then(setOptionsThen).catch(...).  The event tells (arg = 1) whether
\* the promise of a newer call had settled before it.
Settle ==
    /\ pending > 0
    /\ \E o \in Outcomes, nth \in 1..pending :
        LET s0 == [St EXCEPT !.pending = @ - 1,
                             !.overtaken = IF nth <= @ THEN @ - 1 ELSE nth - 1]
            s1 == IF o.kind = "resolve"
                  THEN setOptionsThen(s0, o)
                  ELSE [s0 EXCEPT !.exc = TRUE]
            s2 == IF s1.exc THEN filterFailed(s1) ELSE s1
        IN  Apply(s2, Event("settle",
                            IF o.kind = "reject" THEN "reject"
                            ELSE IF ~o.isArray THEN "invalid"
                            ELSE "resolve",
                            FALSE, IF nth <= overtaken THEN 1 ELSE 0, o.batch))

\* the oldest scheduled resetDebounce timer fires, at or after its due time
TimerFire ==
    /\ timers # <<>>
    /\ Head(timers) <= Epoch
    /\ Apply(Escaped(resetDebounce([St EXCEPT !.timers = Tail(@)])),
             Event("timer", "", FALSE, 0, <<>>))

\* one tick passes while a time is stored (otherwise the tick changes nothing)
Past(t, floor) == IF t - 1 < floor THEN floor ELSE t - 1

Tick ==
    /\ timers # <<>> \/ retry # 0
    /\ Apply([St EXCEPT !.retry = IF @ = 0 THEN 0 ELSE Past(@, Epoch - 1),
                     !.timers = [i \in 1..Len(@) |-> Past(@[i], Epoch)]],
          Event("tick", "", FALSE, 0, <<>>))

Next ==
    \/ KeyUpPrintable
    \/ KeyUpNav
    \/ InputFocus
    \/ Blur
    \/ ListFocus
    \/ KeyUpList
    \/ OptionClick
    \/ PointerUp
    \/ Unmount
    \/ Settle
    \/ TimerFire
    \/ Tick

Spec == Init /\ [][Next]_vars

\* ------------------------------------------------------------------
\* What the last event did, for the properties below

\* the raw arrays props.filter returned synchronously during the last event
SyncResults ==
    { filterLog[i].ret.batch :
        i \in { j \in 1..Len(filterLog) : /\ filterLog[j].by = "host"
                                          /\ filterLog[j].ret.kind = "array" } }

\* the last event was a keyup or a focus of the input during which
\* props.filter returned the array b
SyncResultApplied(b) ==
    /\ last.ev \in {"keyup", "focus"}
    /\ b \in SyncResults

\* the last event was the resolution of a deferred filter call to the array b
DeferredResultApplied(b) ==
    /\ last.ev = "settle"
    /\ last.key = "resolve"
    /\ last.data = b

\* the change notification emitChange publishes for this selection
ChangeFor(_options, _index, _str) ==
    LET d == getEmitData(_options, _index, _str)
    IN  getFauxInputEvent(d.output, d.rawOutput, d.validity)

\* ------------------------------------------------------------------
\* Properties

\* C1: in every reachable state selectedIndex is none or an index within
\* [0, maxIndex].  (A string index left by a click is read as its number.)
C1_SelectedIndexInRange ==
    selectedIndex = Null \/ selectedIndex.n \in 0..maxIndex

\* C2: in every reachable state maxIndex is the number of displayed options
\* less one, and with no displayed option maxIndex = -1 and selectedIndex is
\* none.
C2_MaxIndexIsOptionCount ==
    /\ maxIndex = Len(options) - 1
    /\ Len(options) = 0 => (maxIndex = -1 /\ selectedIndex = Null)

\* C3: right after a non-empty synchronous filter result is applied,
\* maxIndex = optionCount - 1 and selectedIndex is none, unless there is one
\* option and autoSelect is on, and then selectedIndex = 0.
C3_SyncResultResetsSelection ==
    \A b \in GoodBatches :
        (SyncResultApplied(b) /\ Len(b) > 0) =>
            /\ maxIndex = Len(b) - 1
            /\ selectedIndex = IF Len(b) = 1 /\ autoSelect THEN Num(0) ELSE Null

\* C4: a query issued less than debounceTime after props.filter returned a
\* promise does not call props.filter again; the local filter answers it.
\* (A resetDebounce timer that is not yet due tells that a promise was
\* returned less than debounceTime ago.)
InDebounceWindow == \E i \in 1..Len(timers) : timers[i] > Epoch

C4_NoHostCallInsideWindow ==
    [][ InDebounceWindow =>
          \A j \in 1..Len(filterLog') : filterLog'[j].by = "local" ]_vars

\* C5: after a deferred filter call is rejected the session is reset, no
\* option is displayed, maxIndex = -1, and the rejection is logged, not thrown.
C5_RejectionClearsOptions ==
    (last.ev = "settle" /\ last.key = "reject") =>
        /\ fetching = FALSE
        /\ retry = 0
        /\ Len(options) = 0
        /\ maxIndex = -1
        /\ logged = TRUE
        /\ thrown = FALSE

\* C6: a filter result holding an item that fails normalisation is rejected
\* whole: options, rawOptions and maxIndex keep their values and no error
\* leaves the event handler.
BadBatchDelivered ==
    \E b \in BadBatches : SyncResultApplied(b) \/ DeferredResultApplied(b)

C6_BadBatchRejectedWhole ==
    [][ BadBatchDelivered' =>
          /\ options' = options
          /\ rawOptions' = rawOptions
          /\ maxIndex' = maxIndex
          /\ thrown' = FALSE ]_vars

\* ------------------------------------------------------------------
\* getEmitData on its own: every option list, index and query text

OptionLists == { getRawOptions(b) : b \in GoodBatches }
IndexValues ==
    {Null} \cup { Num(n) : n \in 0..(MaxOpts + 1) }
           \cup { Str(n) : n \in 0..MaxOpts }

InitEmitData ==
    /\ options \in OptionLists
    /\ selectedIndex \in IndexValues
    /\ filterStr \in Texts
    /\ rawOptions = options
    /\ maxIndex = Len(options) - 1
    /\ fetching = FALSE
    /\ retry = 0
    /\ showList = FALSE
    /\ activeID = NoID
    /\ activeVal = Undef
    /\ inputText = filterStr
    /\ focus = "out"
    /\ timers = <<>>
    /\ pending = 0
    /\ overtaken = 0
    /\ deferred = FALSE
    /\ autoSelect = FALSE
    /\ loop = FALSE
    /\ required = FALSE
    /\ signals = <<>>
    /\ thrown = FALSE
    /\ logged = FALSE
    /\ filterLog = <<>>
    /\ mounted = TRUE
    /\ listeners = onBeforeMount({})
    /\ last = Event("mount", "", FALSE, 0, <<>>)

CallGetEmitData ==
    /\ last.ev = "mount"
    /\ last' = Event("getEmitData", "", FALSE, 0,
                     getEmitData(options, selectedIndex, filterStr))
    /\ UNCHANGED << selectedIndex, maxIndex, options, rawOptions, filterStr,
                    fetching, retry, showList, activeID, activeVal, inputText,
                    focus, timers, pending, overtaken, autoSelect, loop,
                    required, deferred, mounted, listeners, signals, thrown, logged,
                    filterLog >>

NextEmitData == CallGetEmitData

SpecEmitData == InitEmitData /\ [][NextEmitData]_vars

\* the index is not null and names a position of the list
Addresses(_options, _index) ==
    _index # Null /\ _index.n + 1 \in DOMAIN _options

\* the text is empty once trimmed
Blank(_str) == \A k \in DOMAIN _str : _str[k] = " "

\* C7: getEmitData returns, for an index that addresses an option, a valid
\* validity and that option's value; otherwise valid = false, valueMissing =
\* true, output = '' and badInput = (the trimmed text is empty or the list is).
C7_GetEmitData ==
    last.ev = "getEmitData" =>
        IF Addresses(options, selectedIndex)
        THEN /\ last.data.validity =
                  [valid |-> TRUE, badInput |-> FALSE, valueMissing |-> FALSE]
             /\ last.data.output = options[selectedIndex.n + 1].value
        ELSE /\ last.data.validity.valid = FALSE
             /\ last.data.validity.valueMissing = TRUE
             /\ last.data.output = <<>>
             /\ last.data.validity.badInput =
                  (Blank(filterStr) \/ Len(options) = 0)

\* a call with a whitespace-only text, a non-empty list and a missing index
C7_Witness ==
    /\ last.ev = "getEmitData"
    /\ ~Addresses(options, selectedIndex)
    /\ Len(options) > 0
    /\ filterStr = <<" ">>
    /\ last.data.validity.badInput = TRUE

\* ------------------------------------------------------------------

\* the keys after which, with options present, emitChange is called once
OneEmitKeys == {"ArrowDown", "ArrowUp", "PageDown", "PageUp", "Escape"}

NumberOf(type) == Cardinality({ i \in 1..Len(signals) : signals[i].type = type })

\* C8: emitChange publishes one 'change' signal, followed by an 'invalid'
\* signal exactly when the field is required; the 'invalid' signal carries
\* true exactly when the change is not valid.
C8_ChangeThenInvalidIffRequired ==
    /\ \A i \in 1..Len(signals) :
         /\ signals[i].type = "change" =>
              (required <=> (i < Len(signals) /\ signals[i + 1].type = "invalid"))
         /\ signals[i].type = "invalid" =>
              /\ required
              /\ i > 1
              /\ signals[i - 1].type = "change"
              /\ signals[i].bad = ~signals[i - 1].validity.valid
    /\ (last.ev = "keyup" /\ last.key \in OneEmitKeys /\ maxIndex > -1) =>
         NumberOf("change") = 1

\* C9: a host filter result (synchronous or resolved) of exactly one option
\* with autoSelect on sets selectedIndex to 0 and emits one valid change
\* carrying that option's value; a non-empty result that does not
\* auto-select emits no change.
C9_AutoSelectEmits ==
    \A b \in GoodBatches :
        ((SyncResultApplied(b) \/ DeferredResultApplied(b)) /\ Len(b) > 0) =>
            IF Len(b) = 1 /\ autoSelect
            THEN /\ selectedIndex = Num(0)
                 /\ NumberOf("change") = 1
                 /\ signals[1].type = "change"
                 /\ signals[1].validity.valid = TRUE
                 /\ signals[1].value = b[1].value
            ELSE NumberOf("change") = 0

\* a deferred call resolved to one option, which was selected and emitted
C9_Witness ==
    /\ autoSelect
    /\ \E b \in GoodBatches : DeferredResultApplied(b) /\ Len(b) = 1
    /\ selectedIndex = Num(0)
    /\ NumberOf("change") = 1

\* C10: a navigation key that sets selectedIndex while options exist
\* publishes, in the same step, the change notification of the new
\* selectedIndex.
SelectingKeys ==
    {"ArrowUp", "ArrowDown", "PageUp", "PageDown", "Home", "End", "Escape"}

C10_NavigationEmitsChange ==
    (last.ev = "keyup" /\ last.key \in SelectingKeys /\ maxIndex > -1) =>
        /\ signals # <<>>
        /\ signals[1] = ChangeFor(options, selectedIndex, filterStr)

\* ------------------------------------------------------------------

\* C11: from any open state (showList = true, whatever the number of
\* options), an Escape key sets selectedIndex to none, closes the list and
\* emits a change notification whose validity.valid is false.
C11_EscapeClosesFromAnyOpenState ==
    [][ (showList = TRUE /\ last'.ev = "keyup" /\ last'.key = "Escape") =>
          /\ selectedIndex' = Null
          /\ showList' = FALSE
          /\ \E i \in 1..Len(signals') :
                /\ signals'[i].type = "change"
                /\ signals'[i].validity.valid = FALSE ]_vars

\* the index names position n of a list: the number n or the string "n"
IndexIs(idx, n) == idx.t \in {"num", "str"} /\ idx.n = n

\* C12: Enter in the input while the list is open and option i of the
\* displayed list is highlighted (selectedIndex = i) emits a valid change
\* notification whose value is options[i].value, and closes the list.
C12_EnterCommitsHighlighted ==
    [][ \A i \in 0..(Len(options) - 1) :
          ( /\ showList = TRUE
            /\ IndexIs(selectedIndex, i)
            /\ last'.ev = "keyup"
            /\ last'.key = "Enter" ) =>
              /\ showList' = FALSE
              /\ \E k \in 1..Len(signals') :
                    /\ signals'[k].type = "change"
                    /\ signals'[k].validity.valid = TRUE
                    /\ signals'[k].value = options[i + 1].value ]_vars

\* the event of this step called emitChange with _close = true
CommitEvent(ev, maxIndexBefore) ==
    \/ ev.ev = "click"
    \/ /\ ev.ev \in {"keyup", "listkeyup"}
       /\ ev.key \in {"Enter", "Escape"}
       /\ maxIndexBefore > -1

\* the positions of the change notifications among the emitted signals
Changes(sigs) == { k \in 1..Len(sigs) : sigs[k].type = "change" }

\* the last change notification emitted (the commit's own: a focus handler
\* run by _input.focus() emits before it)
LastChange(sigs) ==
    sigs[CHOOSE k \in Changes(sigs) : \A j \in Changes(sigs) : j <= k]

\* C13: a commit (Enter, click on the list, Escape) sets the input's text to
\* the committed option's label when the change it emits is valid and to ''
\* when it is invalid; any other event leaves the text as the user typed it.
C13_CommitSetsInputText ==
    [][ IF CommitEvent(last', maxIndex) /\ Changes(signals') # {}
        THEN inputText' = IF LastChange(signals').validity.valid
                          THEN LastChange(signals').rawValue[1].label
                          ELSE <<>>
        ELSE inputText' = IF last'.ev = "keyup" /\ isPrintableCharacter(last'.key)
                          THEN filterStr'
                          ELSE inputText ]_vars

\* Enter committed an option: the text is its label, which differs from
\* what was typed
C13_Witness ==
    /\ last.ev = "keyup"
    /\ last.key = "Enter"
    /\ Changes(signals) # {}
    /\ LastChange(signals).validity.valid = TRUE
    /\ inputText = LastChange(signals).rawValue[1].label
    /\ inputText # filterStr

\* C14: a click on the item rendered at position i of the displayed list
\* sets selectedIndex to the integer i, emits a valid change notification
\* whose value is options[i].value and closes the list; a click in the list
\* that identifies no item sets selectedIndex to none, emits an invalid
\* change notification and closes the list.
C14_ClickCommitsItem ==
    [][ last'.ev = "click" =>
          /\ showList' = FALSE
          /\ Changes(signals') # {}
          /\ IF last'.arg >= 0
             THEN /\ selectedIndex' = Num(last'.arg)
                  /\ LastChange(signals').validity.valid = TRUE
                  /\ LastChange(signals').value = options[last'.arg + 1].value
             ELSE /\ selectedIndex' = Null
                  /\ LastChange(signals').validity.valid = FALSE ]_vars

\* ------------------------------------------------------------------
\* increment and decrement on their own: every option list, every
\* selection within it, both values of loop, every step a key passes

Steps == {PlainStep, CtrlStep, PageStep}

InitNav ==
    /\ options \in OptionLists
    /\ rawOptions = options
    /\ maxIndex = Len(options) - 1
    /\ selectedIndex \in {Null} \cup { Num(n) : n \in 0..maxIndex }
    /\ loop \in BOOLEAN
    /\ filterStr = <<>>
    /\ fetching = FALSE
    /\ retry = 0
    /\ showList = (Len(options) > 0)
    /\ activeID = NoID
    /\ activeVal = Undef
    /\ inputText = <<>>
    /\ focus = "input"
    /\ timers = <<>>
    /\ pending = 0
    /\ overtaken = 0
    /\ deferred = FALSE
    /\ autoSelect = FALSE
    /\ required = FALSE
    /\ signals = <<>>
    /\ thrown = FALSE
    /\ logged = FALSE
    /\ filterLog = <<>>
    /\ mounted = TRUE
    /\ listeners = onBeforeMount({})
    /\ last = Event("mount", "", FALSE, 0, <<>>)

CallIncrement ==
    \E step \in Steps :
        Apply(increment(St, step), Event("increment", "", FALSE, step, <<>>))

CallDecrement ==
    \E step \in Steps :
        Apply(decrement(St, step), Event("decrement", "", FALSE, step, <<>>))

NextNav ==
    \/ CallIncrement
    \/ CallDecrement

SpecNav == InitNav /\ [][NextNav]_vars

\* C15: with loop = false and maxIndex >= 0, after every increment or
\* decrement call (steps 1, 5, 10; from any selection, none included)
\* selectedIndex is within [0, maxIndex], and a move past a bound lands on
\* that bound.
C15_ClampedWithoutLoop ==
    [][ (loop = FALSE /\ maxIndex >= 0) =>
          /\ selectedIndex' # Null
          /\ selectedIndex'.n \in 0..maxIndex
          /\ (selectedIndex # Null /\ last'.ev = "increment"
                /\ selectedIndex.n + last'.arg > maxIndex)
               => selectedIndex'.n = maxIndex
          /\ (selectedIndex # Null /\ last'.ev = "decrement"
                /\ selectedIndex.n - last'.arg < 0)
               => selectedIndex'.n = 0 ]_vars

\* C17: increment and decrement change nothing and emit nothing when
\* maxIndex < 0; when maxIndex >= 0 and selectedIndex is none,
\* increment(step) sets selectedIndex to step - 1 and decrement(step) sets it
\* to maxIndex.
C17_NoOptionsNoMoveAndFromNone ==
    [][ /\ maxIndex < 0 =>
             /\ signals' = <<>>
             /\ UNCHANGED << selectedIndex, maxIndex, options, rawOptions,
                             filterStr, fetching, retry, showList, activeID,
                             activeVal, inputText, focus, timers, pending >>
        /\ (maxIndex >= 0 /\ selectedIndex = Null) =>
             selectedIndex' = IF last'.ev = "increment"
                              THEN Num(last'.arg - 1)
                              ELSE Num(maxIndex) ]_vars

\* increment(5) was called with options present and left index 4, which
\* only a call from none does
C17_Witness ==
    /\ last.ev = "increment"
    /\ last.arg = CtrlStep
    /\ selectedIndex = Num(CtrlStep - 1)
    /\ maxIndex >= 0
    /\ signals # <<>>

\* the step handleKeyboardNav passes for an arrow or page key
StepOf(key, ctrl) ==
    IF key \in {"PageDown", "PageUp"} THEN PageStep
    ELSE IF ctrl THEN CtrlStep ELSE PlainStep

\* C16: with loop = true and selectedIndex a concrete index of the list, a
\* move down with selectedIndex + step > maxIndex yields 0, a move up with
\* selectedIndex - step < 0 yields maxIndex, and a move that stays within
\* bounds yields selectedIndex + step (down) or selectedIndex - step (up),
\* for the steps 1, 5 and 10 of the arrow and page keys.
C16_WrapsWithLoop ==
    [][ \A i \in 0..maxIndex :
          ( /\ loop = TRUE
            /\ IndexIs(selectedIndex, i)
            /\ last'.ev = "keyup"
            /\ last'.key \in ArrowKeys ) =>
              LET step == StepOf(last'.key, last'.ctrl)
              IN  IF last'.key \in {"ArrowDown", "PageDown"}
                  THEN IndexIs(selectedIndex',
                               IF i + step > maxIndex THEN 0 ELSE i + step)
                  ELSE IndexIs(selectedIndex',
                               IF i - step < 0 THEN maxIndex ELSE i - step) ]_vars

\* where a move of `by` positions from idx lands (by > 0: down), with the
\* bounds handled as loop says and none handled as C17 says
MovedBy(idx, by) ==
    IF idx = Null THEN (IF by > 0 THEN by - 1 ELSE maxIndex)
    ELSE IF by > 0 /\ idx.n + by > maxIndex THEN (IF loop THEN 0 ELSE maxIndex)
    ELSE IF by < 0 /\ idx.n + by < 0 THEN (IF loop THEN maxIndex ELSE 0)
    ELSE idx.n + by

\* C18: with options present, a key moves the selection by the step of its
\* key: ArrowDown/ArrowUp by 1 without ctrl and by 5 with ctrl,
\* PageDown/PageUp by 10 with or without ctrl; Home sets selectedIndex to 0
\* and End sets it to maxIndex.
C18_KeySteps ==
    [][ (last'.ev = "keyup" /\ maxIndex > -1) =>
          LET key == last'.key
              ctrl == last'.ctrl
          IN  /\ key = "ArrowDown" =>
                   IndexIs(selectedIndex',
                           MovedBy(selectedIndex, IF ctrl THEN 5 ELSE 1))
              /\ key = "ArrowUp" =>
                   IndexIs(selectedIndex',
                           MovedBy(selectedIndex, IF ctrl THEN -5 ELSE -1))
              /\ key = "PageDown" => IndexIs(selectedIndex', MovedBy(selectedIndex, 10))
              /\ key = "PageUp" => IndexIs(selectedIndex', MovedBy(selectedIndex, -10))
              /\ key = "Home" => IndexIs(selectedIndex', 0)
              /\ key = "End" => IndexIs(selectedIndex', maxIndex) ]_vars

\* C19: while the component is mounted, a pointer event whose target is
\* outside the component closes the list, leaves selectedIndex, options, rawOptions, maxIndex, filterStr,
\* fetching and retry unchanged and emits no signal; one whose target is
\* inside the component leaves showList unchanged too.
C19_OutsidePointerClosesOnly ==
    [][ (mounted /\ last'.ev = "pointerup") =>
          /\ showList' = IF last'.key = "outside" THEN FALSE ELSE showList
          /\ signals' = <<>>
          /\ UNCHANGED << selectedIndex, options, rawOptions, maxIndex,
                          filterStr, fetching, retry >> ]_vars

\* the list was closed from outside while a promise was pending and an
\* option was selected
C19_Witness ==
    /\ last.ev = "pointerup"
    /\ last.key = "outside"
    /\ showList = FALSE
    /\ fetching = TRUE
    /\ retry # 0
    /\ selectedIndex # Null
    /\ Len(options) > 0

\* C20: on a focus event of the input, if rawOptions is empty the list
\* stays as it is (closed stays closed), props.filter is not called and no
\* state changes; if rawOptions is not empty the list is open afterwards.
C20_FocusOpensOnlyWithCachedOptions ==
    [][ last'.ev = "focus" =>
          IF Len(rawOptions) = 0
          THEN /\ filterLog' = <<>>
               /\ signals' = <<>>
               /\ thrown' = FALSE
               /\ UNCHANGED << selectedIndex, maxIndex, options, rawOptions,
                               filterStr, fetching, retry, showList, activeID,
                               activeVal, inputText, timers, pending >>
          ELSE showList' = TRUE ]_vars

\* a focus event with cached options opened the list and ran a filter
C20_Witness ==
    /\ last.ev = "focus"
    /\ showList = TRUE
    /\ filterLog # <<>>

\* ------------------------------------------------------------------

\* the keys handleInputKeyUp passes to handleKeyboardNav
NavigationKeys ==
    {"ArrowDown", "ArrowUp", "PageDown", "PageUp", "Home", "End", "Enter",
     "Escape", "Tab"}

\* C21: a navigation key (arrows, Home, End, PageUp, PageDown, Enter,
\* Escape, Tab) invokes neither the host filter nor the local filter and
\* leaves filterStr, options, rawOptions and maxIndex unchanged; a printable
\* key sets filterStr to the input's text and triggers exactly one filter
\* invocation; Tab leaves the whole state unchanged.
C21_KeyClassification ==
    [][ last'.ev \in {"keyup", "listkeyup"} =>
          /\ last'.key \in NavigationKeys =>
               /\ filterLog' = <<>>
               /\ UNCHANGED << filterStr, options, rawOptions, maxIndex >>
          /\ isPrintableCharacter(last'.key) =>
               /\ filterStr' = inputText'
               /\ Len(filterLog') = 1
          /\ last'.key = "Tab" =>
               /\ signals' = <<>>
               /\ UNCHANGED << selectedIndex, maxIndex, options, rawOptions,
                               filterStr, fetching, retry, showList, activeID,
                               activeVal, inputText, focus, timers, pending >> ]_vars

\* C22: when a deferred filter call resolves to a value that is no array, no
\* error leaves the handlers; the failure is logged, fetching = false,
\* retry = 0, maxIndex = -1 and showList keeps its value.
C22_NonArrayResolution ==
    [][ (last'.ev = "settle" /\ last'.key = "invalid") =>
          /\ thrown' = FALSE
          /\ logged' = TRUE
          /\ fetching' = FALSE
          /\ retry' = 0
          /\ maxIndex' = -1
          /\ showList' = showList ]_vars

\* a non-array resolution arrived while options were displayed in an open list
C22_Witness ==
    /\ last.ev = "settle"
    /\ last.key = "invalid"
    /\ logged = TRUE
    /\ maxIndex = -1
    /\ Len(options) > 0
    /\ showList = TRUE

\* props.filter returned, during the last event, a value that is neither an
\* array nor a promise
JunkReturned(log) ==
    \E j \in 1..Len(log) : log[j].by = "host" /\ log[j].ret.kind = "junk"

\* C23: when props.filter, called for a keystroke, returns a value that is
\* neither an array nor a promise, an error leaves the keystroke handler, no
\* filter session is started (fetching = false, no retry deadline, no timer
\* scheduled), options, rawOptions, maxIndex and selectedIndex are unchanged
\* and no change notification is emitted.
C23_JunkReturnThrows ==
    [][ ( /\ last'.ev \in {"keyup", "listkeyup"}
          /\ isPrintableCharacter(last'.key)
          /\ JunkReturned(filterLog') ) =>
            /\ thrown' = TRUE
            /\ fetching' = FALSE
            /\ retry' = 0
            /\ timers' = timers
            /\ pending' = pending
            /\ Changes(signals') = {}
            /\ UNCHANGED << options, rawOptions, maxIndex, selectedIndex >> ]_vars

\* a keystroke's filter call returned junk while an option was selected
C23_Witness ==
    /\ last.ev = "keyup"
    /\ JunkReturned(filterLog)
    /\ thrown = TRUE
    /\ selectedIndex # Null
    /\ Len(options) > 0

\* the refs and the DOM state of the instance
C24_InstanceState ==
    << selectedIndex, maxIndex, options, rawOptions, filterStr, fetching, retry,
       showList, activeID, activeVal, inputText, focus, timers, pending >>

\* C24: the pointerup listener is registered once while the instance is
\* mounted and removed when it is unmounted: after the unmounting no
\* pointerup on the document changes showList or any other state of the
\* instance.
C24_ListenerRemovedAtTeardown ==
    [][ /\ mounted' => listeners' = {"backgroundClick"}
        /\ ~mounted' => listeners' = {}
        /\ (~mounted /\ last'.ev = "pointerup") =>
              /\ UNCHANGED C24_InstanceState
              /\ signals' = <<>>
              /\ thrown' = FALSE ]_vars

\* a pointerup outside the wrapper after the unmounting, the list's flag
\* still set
C24_Witness ==
    /\ mounted = FALSE
    /\ last.ev = "pointerup"
    /\ showList = TRUE

\* ------------------------------------------------------------------
\* defaultFilter on its own: a cached full list, the list on display (a
\* part of it, as earlier calls left it) and a query

FilterQueries ==
    { <<>>, <<" ">>, <<" ", " ">>, <<"q">>, <<"Q", " ">>, <<" ", "l", "D">>,
      <<"s">>, <<"a">>, <<"z">>, <<"q", "z">> }

\* the longest cached list given to defaultFilter
MaxFilterOpts == 3

RECURSIVE UniverseItems(_, _)
\* the items of Universe whose position is in S, in Universe order
UniverseItems(S, k) ==
    IF k > MaxFilterOpts THEN <<>>
    ELSE IF k \in S THEN <<Universe[k]>> \o UniverseItems(S, k + 1)
    ELSE UniverseItems(S, k + 1)

FilterLists ==
    { getRawOptions(UniverseItems(S, 1)) : S \in SUBSET (1..MaxFilterOpts) }

\* TRUE when every item of list a is an item of list b
PartOf(a, b) ==
    \A i \in 1..Len(a) : \E j \in 1..Len(b) : a[i] = b[j]

InitFilter ==
    /\ rawOptions \in FilterLists
    /\ options \in { l \in FilterLists : PartOf(l, rawOptions) }
    /\ maxIndex = Len(rawOptions) - 1
    /\ selectedIndex = Null
    /\ loop = FALSE
    /\ filterStr = <<>>
    /\ fetching = TRUE
    /\ retry = Epoch
    /\ showList = TRUE
    /\ activeID = NoID
    /\ activeVal = Undef
    /\ inputText = <<>>
    /\ focus = "input"
    /\ timers = <<>>
    /\ pending = 0
    /\ overtaken = 0
    /\ deferred = TRUE
    /\ autoSelect = FALSE
    /\ required = FALSE
    /\ signals = <<>>
    /\ thrown = FALSE
    /\ logged = FALSE
    /\ filterLog = <<>>
    /\ mounted = TRUE
    /\ listeners = onBeforeMount({})
    /\ last = Event("mount", "", FALSE, 0, <<>>)

\* options.value = bouncingFilter(rawOptions.value, str, options.value)
CallDefaultFilter ==
    \E str \in FilterQueries :
        Apply([St EXCEPT !.inputText = str,
                         !.filterStr = str,
                         !.options = defaultFilter(rawOptions, str, options)],
              Event("defaultFilter", "", FALSE, 0, str))

NextFilter == CallDefaultFilter

SpecFilter == InitFilter /\ [][NextFilter]_vars

\* TRUE when the item's value or label contains the trimmed query, case
\* ignored
MatchesQuery(item, str) ==
    LET val == toLocaleLowerCase(trim(str))
    IN  \/ includes(toLocaleLowerCase(item.value), val)
        \/ includes(toLocaleLowerCase(item.label), val)

\* C25: for a query whose trimmed text is non-empty the default filter
\* returns exactly the items of the cached full list whose value or label
\* contains the trimmed query, case ignored; for an empty or whitespace-only
\* query it returns the current option list unchanged.
C25_DefaultFilterMatches ==
    [][ last'.ev = "defaultFilter" =>
          IF trim(last'.data) # <<>>
          THEN options' = SelectSeq(rawOptions,
                                    LAMBDA item : MatchesQuery(item, last'.data))
          ELSE options' = options ]_vars

\* C26: after every printable keystroke, commit (Enter, click), Escape and
\* focus event, filterStr (the text handed to props.filter on focus) is the
\* text displayed in the input.
C26_FilterStrIsDisplayedText ==
    [][ last'.ev \in {"keyup", "click", "focus"} =>
          filterStr' = inputText' ]_vars

\* C27: when props.filter returned a promise that has not settled, then once
\* the timer scheduled for that call has fired the session is idle:
\* fetching = false and there is no retry deadline.
C27_TimerEndsSession ==
    [][ (last'.ev = "timer" /\ pending = 1 /\ Len(timers) = 1) =>
          /\ fetching' = FALSE
          /\ retry' = 0 ]_vars

\* C28: the debounce state does not stay stuck: while a promise returned by
\* props.filter is unsettled and fetching is still set, a printable
\* keystroke made after the retry deadline of the last call has passed (or
\* was cleared by the timer) calls props.filter again and is not answered by
\* the local filter.
C28_DebounceNotStuck ==
    [][ ( /\ last'.ev = "keyup"
          /\ isPrintableCharacter(last'.key)
          /\ pending > 0
          /\ fetching = TRUE
          /\ retry < Epoch ) =>
            /\ Len(filterLog') = 1
            /\ filterLog'[1].by = "host" ]_vars

\* props.filter was called for a keystroke while an earlier promise was
\* unsettled and the earlier call's timer, due, had not fired yet
C28_Witness ==
    /\ last.ev = "keyup"
    /\ Len(filterLog) = 1
    /\ filterLog[1].by = "host"
    /\ pending = 2
    /\ Len(timers) = 2
    /\ Head(timers) <= Epoch

\* C29: at every moment at most one resetDebounce timer is scheduled and has
\* not fired yet.
C29_OneTimerOutstanding == Len(timers) <= 1

\* C30: results of promises are applied in the order in which they resolve,
\* with no sequence check: when the promise of an older call resolves (with
\* a well-formed array) after the promise of a newer call has settled,
\* options, rawOptions and maxIndex hold the older call's result.
C30_LastResolvedWins ==
    [][ ( /\ last'.ev = "settle"
          /\ last'.key = "resolve"
          /\ last'.arg = 1
          /\ ~getRawOptionsThrows(last'.data) ) =>
            /\ rawOptions' = getRawOptions(last'.data)
            /\ options' = rawOptions'
            /\ maxIndex' = Len(rawOptions') - 1 ]_vars

\* an older call's result has replaced a different list, which was on
\* display after a newer call had settled
C30_Witness ==
    /\ last.ev = "settle"
    /\ last.key = "resolve"
    /\ last.arg = 1
    /\ pending = 0
    /\ Len(rawOptions) = MaxOpts
    /\ options = getRawOptions(last.data)
    /\ fetching = FALSE

\* the promise of the newest props.filter call is unsettled, and that call
\* was made less than debounceTime ago (its timer, the last scheduled, is not
\* due yet)
NewestCallInWindow ==
    /\ pending > overtaken
    /\ timers # <<>>
    /\ timers[Len(timers)] > Epoch

\* C31: while the promise returned by a props.filter call made at time t is
\* unsettled, no further call of props.filter is made before
\* t + debounceTime, whatever timers of earlier calls fire in between.
C31_WindowLastsFullLength ==
    [][ NewestCallInWindow =>
          \A j \in 1..Len(filterLog') : filterLog'[j].by = "local" ]_vars

\* C32: in every reachable state a retry deadline exists only inside a
\* fetching session: fetching = false implies retry = 0.
C32_RetryOnlyWhileFetching == (fetching = FALSE) => (retry = 0)

\* a promise resolved inside its window: the session has ended and so has the
\* deadline, while the timer of the call is still scheduled
C32_Witness ==
    /\ last.ev = "settle"
    /\ last.key = "resolve"
    /\ fetching = FALSE
    /\ retry = 0
    /\ timers # <<>>
    /\ timers[Len(timers)] > Epoch

\* C33: in every reachable state activeVal and activeID agree with the
\* highlighted option: with no selection activeVal is undefined (and no item
\* is active); otherwise activeVal is options[selectedIndex].value and
\* activeID names index selectedIndex.
C33_ActiveDescendantAgrees ==
    mounted =>
        IF selectedIndex = Null
        THEN activeVal = Undef /\ activeID = NoID
        ELSE /\ isObj(Lookup(options, selectedIndex))
             /\ activeVal = Lookup(options, selectedIndex)[1].value
             /\ activeID = selectedIndex.n

\* C34: the settlement of a promise returned by props.filter (resolved,
\* rejected, or resolved to a value that is no array) and the firing of a
\* resetDebounce timer never change showList: a list closed while the call
\* was in flight stays closed, an open list stays open.
C34_SettlementKeepsShowList ==
    [][ last'.ev \in {"settle", "timer"} => showList' = showList ]_vars

\* a result arrived, and filled the list, while the list was closed
C34_Witness ==
    /\ last.ev = "settle"
    /\ last.key = "resolve"
    /\ showList = FALSE
    /\ mounted = TRUE
    /\ Len(options) > 0
    /\ options = getRawOptions(last.data)

\* the refs of the instance and the text of its input
C35_Refs ==
    << selectedIndex, maxIndex, options, rawOptions, filterStr, fetching, retry,
       showList, activeID, activeVal, inputText >>

\* C35: after the unmounting no 'change' or 'invalid' signal is emitted and
\* no state of the instance is changed, also when a promise returned by
\* props.filter settles or a resetDebounce timer fires afterwards.
C35_NothingAfterTeardown ==
    [][ (~mounted /\ last'.ev \in {"settle", "timer"}) =>
          /\ signals' = <<>>
          /\ UNCHANGED C35_Refs ]_vars

\* C36: a commit (Enter or Escape with options present, a click on an
\* option) emits exactly one change notification, does not call props.filter
\* and does not replace the option list, also when _input.focus() inside
\* emitChange runs the input's focus handler.
C36_CommitEmitsOnceNoFilter ==
    [][ ( \/ last'.ev = "click" /\ last'.arg >= 0
          \/ /\ last'.ev = "keyup"
             /\ last'.key \in {"Enter", "Escape"}
             /\ maxIndex > -1 ) =>
            /\ Cardinality(Changes(signals')) = 1
            /\ filterLog' = <<>>
            /\ UNCHANGED << options, rawOptions, maxIndex >> ]_vars

\* C37: each key event is handled once: one keyup, in the input or on an
\* element of the list, leads to at most one call of handleKeyboardNav, so
\* with options present it moves the selection by one step of its key and
\* emits at most one change notification.
C37_KeyHandledOnce ==
    [][ last'.ev \in {"keyup", "listkeyup"} =>
          /\ Cardinality(Changes(signals')) <= 1
          /\ ( /\ last'.key = "ArrowDown"
               /\ last'.ctrl = FALSE
               /\ maxIndex > 0
               /\ selectedIndex = Num(0) ) =>
                 selectedIndex' = Num(1) ]_vars

=============================================================================
